---- MODULE Spec2Model ----
(***************************************************************************)
(* Model of src/fintrack_desktop.py, the launcher of the FinTrack desktop  *)
(* application.  The module body is a straight line:                       *)
(*                                                                         *)
(*   line 18      sys.path.insert(0, str(_repo_root()))                    *)
(*   line 20      from desktop.fintrack_desktop.app import main            *)
(*   lines 23-24  if __name__ == "__main__": raise SystemExit(main())      *)
(*                                                                         *)
(* A path is the sequence of its components below the filesystem root      *)
(* (<<>> is "/").  The external package and its main() are not part of     *)
(* the repository: the result of the import and the outcome of main() are  *)
(* inputs, drawn from small sets.  What the Python runtime does with an    *)
(* exception that leaves the module body (SystemExit or any other) is      *)
(* modelled as CPython on POSIX does it.                                   *)
(***************************************************************************)
EXTENDS Integers, Sequences, FiniteSets, TLC

VARIABLES
    file,        \* __file__: [abs |-> BOOLEAN, parts |-> path components]
    cwd,         \* the working directory (used when __file__ is relative)
    links,       \* the symbolic links of the file system, by entry name
    sysPath,     \* sys.path, a list of strings
    initPath,    \* sys.path as it was when the process started
    isMain,      \* __name__ == "__main__"
    hosted,      \* the module body runs under a caller (an importer, a harness)
    pc,          \* position in the module body
    root,        \* the value _repo_root() returned
    rootKnown,   \* _repo_root() has returned in this execution
    importResult,\* how the import of line 20 ended in this execution
    imported,    \* the name main is bound in this execution
    mainCalls,   \* calls of main() in this execution
    outcome,     \* what the last call of main() did
    exc,         \* the exception that left the module body
    exitStatus,  \* the exit status of the process, -1 while it runs
    runs,        \* executions of the module body started in this process
    inserts,     \* insertions into sys.path made by the launcher so far
    trace        \* the steps of this execution, in order

vars == <<file, cwd, links, sysPath, initPath, isMain, hosted, pc, root,
          rootKnown, importResult, imported, mainCalls, outcome, exc,
          exitStatus, runs, inserts, trace>>

-----------------------------------------------------------------------------
(* Bounds *)

\* directory components of __file__ before the file name
MaxDirs == 2

\* executions of the module body in one process
MaxRuns == 3

-----------------------------------------------------------------------------
(* Python values and exceptions *)

PyNone == [type |-> "NoneType", val |-> 0]

PyInt(n) == [type |-> "int", val |-> n]

PyStr == [type |-> "str", val |-> 0]

\* the integers main() returns in the model: both sides of 0 and of 255
ReturnedInts == {-1, 0, 2, 255, 256}

ReturnValues == {PyInt(n) : n \in ReturnedInts} \cup {PyNone, PyStr}

NoExc == [cls |-> "none", code |-> PyNone]

SystemExitOf(v) == [cls |-> "SystemExit", code |-> v]

IndexError == [cls |-> "IndexError", code |-> PyNone]

ImportError == [cls |-> "ImportError", code |-> PyNone]

\* what main() can raise: an error, or SystemExit (sys.exit) with a code
MainExceptions ==
    {[cls |-> "RuntimeError", code |-> PyNone],
     SystemExitOf(PyInt(0)), SystemExitOf(PyInt(3))}

NoOutcome == [kind |-> "none", value |-> PyNone, exc |-> NoExc]

MainOutcomes ==
    {[kind |-> "return", value |-> v, exc |-> NoExc] : v \in ReturnValues}
    \cup {[kind |-> "raise", value |-> PyNone, exc |-> e] : e \in MainExceptions}

ImportOutcomes == {"ok", "ImportError"}

-----------------------------------------------------------------------------
(* Paths *)

NoLink == [isLink |-> FALSE, target |-> <<>>]

LinkTo(p) == [isLink |-> TRUE, target |-> p]

\* "l" may be a link to a directory, "f" (the launcher) a link to a file
LinkTables ==
    {[l |-> dl, f |-> fl] : dl \in {NoLink, LinkTo(<<>>), LinkTo(<<"b">>)},
                            fl \in {NoLink, LinkTo(<<"b", "g">>)}}

IsLink(lk, c) ==
    \/ c = "l" /\ lk.l.isLink
    \/ c = "f" /\ lk.f.isLink

TargetOf(lk, c) == IF c = "l" THEN lk.l.target ELSE lk.f.target

DirSeqs(n) == UNION {[1..k -> {"a", "l", ".."}] : k \in 0..n}

Files == {[abs |-> ab, parts |-> Append(d, "f")] :
              ab \in BOOLEAN, d \in DirSeqs(MaxDirs)}

Front(p) == SubSeq(p, 1, Len(p) - 1)

\* Path.resolve(): make absolute, follow links, fold ".." (".." of "/" is "/")
RECURSIVE Walk(_, _, _)
Walk(lk, stack, rest) ==
    IF rest = <<>> THEN stack
    ELSE LET c == Head(rest) IN
         IF c = ".."
         THEN Walk(lk, IF stack = <<>> THEN <<>> ELSE Front(stack), Tail(rest))
         ELSE IF IsLink(lk, c)
         THEN Walk(lk, TargetOf(lk, c), Tail(rest))
         ELSE Walk(lk, Append(stack, c), Tail(rest))

Resolve(f, wd, lk) == Walk(lk, IF f.abs THEN <<>> ELSE wd, f.parts)

\* Path.parents has one entry per component of the path
ParentsLen(p) == Len(p)

\* ParentsAt1 taking parents[0], the directory of the file
ParentsAt1_Parent(p) == SubSeq(p, 1, Len(p) - 1)

\* Path.parents[1]
ParentsAt1(p) == SubSeq(p, 1, Len(p) - 2)

\* str(path)
RECURSIVE JoinParts(_)
JoinParts(p) == IF p = <<>> THEN "" ELSE "/" \o Head(p) \o JoinParts(Tail(p))

PathStr(p) == IF p = <<>> THEN "/" ELSE JoinParts(p)

\* Insert0 as list.append(x)
Insert0_Append(lst, x) == lst \o <<x>>

\* Insert0 that leaves the list alone when x is already in it
Insert0_Dedup(lst, x) ==
    IF \E i \in 1..Len(lst) : lst[i] = x THEN lst ELSE <<x>> \o lst

\* list.insert(0, x)
Insert0(lst, x) == <<x>> \o lst

InitialPaths == {<<>>, <<"">>, <<"/a", "/lib">>}

-----------------------------------------------------------------------------
(* The runtime's handling of an exception that leaves the program *)

ExitModulus == 256

\* SystemExitStatus passing only the truth value of an integer on
SystemExitStatus_Truth(v) ==
    IF v.type = "NoneType" THEN 0
    ELSE IF v.type = "int" THEN (IF v.val = 0 THEN 0 ELSE 1)
    ELSE 1

\* SystemExitStatus taking every value that is not an integer for success
SystemExitStatus_Lenient(v) ==
    IF v.type = "int" THEN v.val % 256 ELSE 0

\* SystemExit: None is 0, an integer is its low 8 bits, anything else is
\* printed and gives 1
SystemExitStatus(v) ==
    IF v.type = "NoneType" THEN 0
    ELSE IF v.type = "int" THEN v.val % ExitModulus
    ELSE 1

ExitStatusOf(e) ==
    IF e.cls = "SystemExit" THEN SystemExitStatus(e.code) ELSE 1

\* The exception e leaves the module body after the steps tr: a caller
\* receives it, or, when the module is the program, the process ends.
Propagate(e, tr) ==
    /\ exc' = e
    /\ IF hosted
       THEN /\ pc' = "raised"
            /\ exitStatus' = exitStatus
            /\ trace' = tr
       ELSE /\ pc' = "exited"
            /\ exitStatus' = ExitStatusOf(e)
            /\ trace' = Append(tr, "exit")

-----------------------------------------------------------------------------
(* The process *)

Init ==
    /\ file \in Files
    /\ cwd = <<"a", "b">>
    /\ links \in LinkTables
    /\ sysPath \in InitialPaths
    /\ initPath = sysPath
    /\ isMain \in BOOLEAN
    /\ hosted \in BOOLEAN
    /\ (~isMain => hosted)
    /\ pc = "resolve"
    /\ root = <<>>
    /\ rootKnown = FALSE
    /\ importResult = "none"
    /\ imported = FALSE
    /\ mainCalls = 0
    /\ outcome = NoOutcome
    /\ exc = NoExc
    /\ exitStatus = -1
    /\ runs = 1
    /\ inserts = 0
    /\ trace = <<>>

\* line 18, the argument: _repo_root(), lines 14-15
ResolveRoot ==
    /\ pc = "resolve"
    /\ LET p == Resolve(file, cwd, links) IN
       IF ParentsLen(p) > 1
       THEN /\ root' = ParentsAt1(p)
            /\ rootKnown' = TRUE
            /\ pc' = "insert"
            /\ trace' = Append(trace, "resolve")
            /\ UNCHANGED <<exc, exitStatus>>
       ELSE /\ UNCHANGED <<root, rootKnown>>
            /\ Propagate(IndexError, trace)
    /\ UNCHANGED <<file, cwd, links, sysPath, initPath, isMain, hosted,
                   importResult, imported, mainCalls, outcome, runs, inserts>>

\* line 18, the call: sys.path.insert(0, str(...))
InsertRoot ==
    /\ pc = "insert"
    /\ sysPath' = Insert0(sysPath, PathStr(root))
    /\ inserts' = inserts + 1
    /\ pc' = "import"
    /\ trace' = Append(trace, "insert")
    /\ UNCHANGED <<file, cwd, links, initPath, isMain, hosted, root, rootKnown,
                   importResult, imported, mainCalls, outcome, exc, exitStatus,
                   runs>>

\* ImportMain with a handler that retries a failed import
ImportMain_Retry ==
    /\ pc = "import"
    /\ \E r \in ImportOutcomes :
          /\ importResult' = r
          /\ IF r = "ok"
             THEN /\ imported' = TRUE
                  /\ pc' = "guard"
                  /\ trace' = Append(trace, "import")
             ELSE UNCHANGED <<imported, pc, trace>>
    /\ UNCHANGED <<file, cwd, links, sysPath, initPath, isMain, hosted, root,
                   rootKnown, mainCalls, outcome, exc, exitStatus, runs,
                   inserts>>

\* ImportMain with a handler that swallows a failed import and goes on
ImportMain_Swallow ==
    /\ pc = "import"
    /\ \E r \in ImportOutcomes :
          /\ importResult' = r
          /\ imported' = (r = "ok")
          /\ pc' = "guard"
          /\ trace' = IF r = "ok" THEN Append(trace, "import") ELSE trace
    /\ UNCHANGED <<file, cwd, links, sysPath, initPath, isMain, hosted, root,
                   rootKnown, mainCalls, outcome, exc, exitStatus, runs,
                   inserts>>

\* ImportMain with a handler that takes the root off sys.path on failure
ImportMain_Rollback ==
    /\ pc = "import"
    /\ \E r \in ImportOutcomes :
          /\ importResult' = r
          /\ IF r = "ok"
             THEN /\ imported' = TRUE
                  /\ pc' = "guard"
                  /\ trace' = Append(trace, "import")
                  /\ UNCHANGED <<exc, exitStatus, sysPath>>
             ELSE /\ UNCHANGED imported
                  /\ sysPath' = Tail(sysPath)
                  /\ Propagate(ImportError, trace)
    /\ UNCHANGED <<file, cwd, links, initPath, isMain, hosted, root,
                   rootKnown, mainCalls, outcome, runs, inserts>>

\* line 20: from desktop.fintrack_desktop.app import main
ImportMain ==
    /\ pc = "import"
    /\ \E r \in ImportOutcomes :
          /\ importResult' = r
          /\ IF r = "ok"
             THEN /\ imported' = TRUE
                  /\ pc' = "guard"
                  /\ trace' = Append(trace, "import")
                  /\ UNCHANGED <<exc, exitStatus>>
             ELSE /\ UNCHANGED imported
                  /\ Propagate(ImportError, trace)
    /\ UNCHANGED <<file, cwd, links, sysPath, initPath, isMain, hosted, root,
                   rootKnown, mainCalls, outcome, runs, inserts>>

\* MainGuard without the test of __name__
MainGuard_Always == TRUE

\* line 23: __name__ == "__main__"
MainGuard == isMain

\* RaisedBy with main's exception wrapped into an exit status of 1
RaisedBy_Wrapped(o) == SystemExitOf(IF o.kind = "return" THEN o.value ELSE PyInt(1))

\* line 24: the exception that leaves raise SystemExit(main()) when main()
\* did o: SystemExit(value) if it returned, its own exception if it raised
RaisedBy(o) == IF o.kind = "return" THEN SystemExitOf(o.value) ELSE o.exc

\* lines 23-24, __name__ == "__main__": raise SystemExit(main())
CallMain ==
    /\ pc = "guard"
    /\ MainGuard
    /\ \E o \in MainOutcomes :
          /\ outcome' = o
          /\ mainCalls' = mainCalls + 1
          /\ Propagate(RaisedBy(o), Append(trace, "call"))
    /\ UNCHANGED <<file, cwd, links, sysPath, initPath, isMain, hosted, root,
                   rootKnown, importResult, imported, runs, inserts>>

\* line 23, __name__ is not "__main__": the module body ends
SkipMain ==
    /\ pc = "guard"
    /\ ~MainGuard
    /\ pc' = "loaded"
    /\ UNCHANGED <<file, cwd, links, sysPath, initPath, isMain, hosted, root,
                   rootKnown, importResult, imported, mainCalls, outcome, exc,
                   exitStatus, runs, inserts, trace>>

\* The caller executes the module body again, in the same process.
Relaunch ==
    /\ pc \in {"loaded", "raised"}
    /\ runs < MaxRuns
    /\ runs' = runs + 1
    /\ isMain' \in BOOLEAN
    /\ pc' = "resolve"
    /\ root' = <<>>
    /\ rootKnown' = FALSE
    /\ importResult' = "none"
    /\ imported' = FALSE
    /\ mainCalls' = 0
    /\ outcome' = NoOutcome
    /\ exc' = NoExc
    /\ trace' = <<>>
    /\ UNCHANGED <<file, cwd, links, sysPath, initPath, hosted, exitStatus,
                   inserts>>

Next ==
    \/ ResolveRoot
    \/ InsertRoot
    \/ ImportMain
    \/ CallMain
    \/ SkipMain
    \/ Relaunch

Spec == Init /\ [][Next]_vars

-----------------------------------------------------------------------------
(* Definitions the properties share *)

\* the step s has been completed in this execution
Did(s) == \E i \in 1..Len(trace) : trace[i] = s

\* this execution has ended
Ended == pc \in {"loaded", "raised", "exited"}

\* the launcher's file, resolved
ResolvedFile == Resolve(file, cwd, links)

\* Path.parent: the path without its last component; "/" is its own parent
ParentDir(p) == IF p = <<>> THEN <<>> ELSE SubSeq(p, 1, Len(p) - 1)

\* n copies of x
Copies(n, x) == [i \in 1..n |-> x]

\* the position of a step in the launcher's fixed order
Rank(s) ==
    CASE s = "resolve" -> 1
      [] s = "insert" -> 2
      [] s = "import" -> 3
      [] s = "call" -> 4
      [] s = "exit" -> 5

-----------------------------------------------------------------------------
(* Properties *)

\* C1: once the launcher has inserted the root, the string of the computed
\* root is the first entry of sys.path, whatever sys.path held at the start,
\* and the entries present at the start follow the launcher's insertions.
C1_RootAtFront ==
    Did("insert") =>
        /\ rootKnown
        /\ sysPath # <<>>
        /\ Head(sysPath) = PathStr(root)
        /\ SubSeq(sysPath, inserts + 1, Len(sysPath)) = initPath

\* C1 witness: the launcher ran to its end on a sys.path that had entries,
\* none of them the root.
C1_Witness ==
    /\ Did("insert")
    /\ Ended
    /\ Len(initPath) = 2
    /\ \A i \in 1..Len(initPath) : initPath[i] # PathStr(root)

\* C2 as stated: run as the program, main() returning the integer N makes
\* the process exit status N, for every integer N.
C2_Original ==
    (pc = "exited" /\ outcome.kind = "return" /\ outcome.value.type = "int")
        => exitStatus = outcome.value.val

\* C2 amended: run as the program, main() returning the integer N makes
\* the process exit status the low 8 bits of N (N modulo 256), which is N
\* itself exactly when 0 <= N <= 255.
C2_ExitStatusLowByte ==
    (pc = "exited" /\ outcome.kind = "return" /\ outcome.value.type = "int")
        => LET n == outcome.value.val IN
           /\ exitStatus \in 0..255
           /\ (exitStatus - n) % 256 = 0
           /\ (n \in 0..255 => exitStatus = n)
           /\ (n \notin 0..255 => exitStatus # n)

\* C2 witness: main() returned 2 and the process exited with status 2.
C2_Witness ==
    /\ pc = "exited"
    /\ outcome.kind = "return"
    /\ outcome.value = PyInt(2)
    /\ exitStatus = 2

\* C3 as stated: main() returning a value that is not an integer, or
\* nothing, makes the exit status 0.
C3_Original ==
    (pc = "exited" /\ outcome.kind = "return" /\ outcome.value.type # "int")
        => exitStatus = 0

\* C3 amended: main() returning nothing (None) makes the exit status 0; a
\* returned value that is neither an integer nor None makes it 1.
C3_NoneIsZeroOtherIsOne ==
    (pc = "exited" /\ outcome.kind = "return" /\ outcome.value.type # "int")
        => exitStatus = (IF outcome.value.type = "NoneType" THEN 0 ELSE 1)

\* C3 witness: main() returned a string and the process has exited.
C3_Witness ==
    /\ pc = "exited"
    /\ outcome.kind = "return"
    /\ outcome.value = PyStr

\* C4 as stated: when main() raises, the launcher calls it once, the
\* exception leaves unchanged and the exit status is not 0.
C4_Original ==
    (pc = "exited" /\ outcome.kind = "raise")
        => /\ mainCalls = 1
           /\ exc = outcome.exc
           /\ exitStatus # 0

\* C4 amended: when main() raises, the launcher calls it once and the
\* exception leaves unchanged; the exit status is not 0 when the exception
\* is not SystemExit, and is the status of its code when it is SystemExit
\* (0 for code 0).
C4_RaisePropagates ==
    (Ended /\ outcome.kind = "raise")
        => /\ mainCalls = 1
           /\ exc = outcome.exc
           /\ pc # "loaded"
           /\ (pc = "exited" /\ exc.cls # "SystemExit" => exitStatus # 0)
           /\ (pc = "exited" /\ exc.cls = "SystemExit"
                   => exitStatus = exc.code.val)

\* C4 witness: main() raised an error and the process has exited.
C4_Witness ==
    /\ pc = "exited"
    /\ outcome.kind = "raise"
    /\ outcome.exc.cls = "RuntimeError"

\* C5: when the import fails, the execution is over at once with the
\* ImportError: main is not bound and never called, the import is not tried
\* again, and the process, when the launcher is the program, exits with a
\* status that is not 0.
C5_ImportFailureAborts ==
    importResult = "ImportError"
        => /\ pc \in {"raised", "exited"}
           /\ exc = ImportError
           /\ ~imported
           /\ mainCalls = 0
           /\ outcome = NoOutcome
           /\ ~Did("import")
           /\ ~Did("call")
           /\ (pc = "exited" => exitStatus # 0)
           /\ (~hosted => pc = "exited")

\* C5 witness: the import failed in a launcher run as the program.
C5_Witness ==
    /\ importResult = "ImportError"
    /\ pc = "exited"
    /\ isMain

\* C6: every execution that reaches line 18 computes the same root and adds
\* one entry for it, so after k executions sys.path is k copies of the root
\* followed by the entries it had at the start, and the root is first.
C6_EachRunPrepends ==
    LET r == PathStr(ParentsAt1(ResolvedFile)) IN
    /\ sysPath = Copies(inserts, r) \o initPath
    /\ (rootKnown => PathStr(root) = r)
    /\ (Did("insert") => inserts = runs /\ Head(sysPath) = r)
    /\ (~Did("insert") /\ Len(ResolvedFile) > 1 => inserts = runs - 1)

\* C6 witness: three executions have inserted the root.
C6_Witness ==
    /\ runs = 3
    /\ inserts = 3
    /\ Ended
    /\ Len(sysPath) = Len(initPath) + 3

\* C7 as stated: wherever the launcher file is, the root step yields the
\* parent of the parent of the resolved file path.
C7_Original ==
    (pc # "resolve") => (rootKnown /\ root = ParentDir(ParentDir(ResolvedFile)))

\* C7 amended: when the resolved file path has at least two components (the
\* file is not directly in the root directory) the root is the parent of the
\* parent of that path; otherwise _repo_root() raises IndexError, no root is
\* computed and nothing is inserted.
C7_RootIsGrandparent ==
    /\ (rootKnown => /\ Len(ResolvedFile) > 1
                     /\ root = ParentDir(ParentDir(ResolvedFile)))
    /\ (pc # "resolve" /\ Len(ResolvedFile) > 1 => rootKnown)
    /\ (pc # "resolve" /\ Len(ResolvedFile) < 2
            => /\ ~rootKnown
               /\ exc = IndexError
               /\ ~Did("insert")
               /\ sysPath = initPath)

\* C7 witness: a root was computed from a file reached through a link and
\* "..", so that resolving matters.
C7_Witness ==
    /\ rootKnown
    /\ file.parts = <<"l", "..", "f">>
    /\ links.l.isLink
    /\ links.f.isLink
    /\ root = <<>>

\* C8: the completed steps of an execution are in the order resolve, insert,
\* import, call, exit, each at most once; when the import is attempted the
\* root is at the front of sys.path; main() is called only after the import
\* succeeded, and at most once.
C8_FixedOrder ==
    /\ \A i, j \in 1..Len(trace) : i < j => Rank(trace[i]) < Rank(trace[j])
    /\ (Did("insert") => Did("resolve"))
    /\ (Did("import") => Did("insert") /\ imported)
    /\ (Did("call") => Did("import") /\ imported)
    /\ (Did("exit") => pc = "exited")
    /\ (pc = "import" => Did("insert") /\ Head(sysPath) = PathStr(root))
    /\ (importResult # "none" => Did("insert") /\ Head(sysPath) = PathStr(root))
    /\ mainCalls = (IF Did("call") THEN 1 ELSE 0)

\* C8 witness: an execution that went through all five steps.
C8_Witness == trace = <<"resolve", "insert", "import", "call", "exit">>

\* C9: after a failed import, or after main() raised, the root the launcher
\* inserted is still the first entry of sys.path and the earlier entries
\* follow it in their order.
C9_NoRollback ==
    (Ended /\ (importResult = "ImportError" \/ outcome.kind = "raise"))
        => /\ sysPath # <<>>
           /\ Head(sysPath) = PathStr(root)
           /\ sysPath = Copies(inserts, PathStr(root)) \o initPath
           /\ inserts = runs

\* C9 witness: the import failed on a sys.path that had entries.
C9_Witness ==
    /\ Ended
    /\ importResult = "ImportError"
    /\ initPath # <<>>
    /\ Len(sysPath) = Len(initPath) + 1

\* C10: loaded under another name than "__main__", the module inserts the
\* root and imports main but never calls it and never ends the process;
\* main() is called and the process exits only under the name "__main__".
C10_OnlyMainCalls ==
    /\ (~isMain => mainCalls = 0 /\ pc # "exited" /\ exitStatus = -1
                   /\ outcome = NoOutcome)
    /\ (pc = "loaded" => /\ ~isMain
                         /\ imported
                         /\ Head(sysPath) = PathStr(root)
                         /\ exc = NoExc)
    /\ (mainCalls > 0 \/ pc = "exited" => isMain)
    /\ (pc = "exited" <=> exitStatus # -1)

\* C10 witness: the module was loaded by an importer, to its end.
C10_Witness ==
    /\ pc = "loaded"
    /\ ~isMain
    /\ imported
    /\ mainCalls = 0
    /\ runs = 1

====
